---- MODULE Spec2Model ----
(***************************************************************************)
(* State-machine model of api.py: the knowledge-base document store        *)
(* (upload-one, batch upload, list, delete), the single-shot chat handler  *)
(* and the streaming chat sessions.  The file system is modelled as the    *)
(* set of knowledge-base directories, the byte size of every file in them  *)
(* and the set of index locations that exist.  LocalDocQA (the index       *)
(* manager and QA engine, chains/local_doc_qa.py) is modelled from its     *)
(* documented contract.                                                    *)
(***************************************************************************)
EXTENDS Integers, Sequences, FiniteSets, TLC

\* ------------------------------------------------------------------ bounds
MaxFileSize == 4     \* largest size a stored file may grow to (append mode)
MaxTurn == 2         \* most questions asked on one streaming connection
MaxPartials == 2     \* most partial results the engine yields for one question
MaxText == 2         \* longest answer text, in characters

KBs == {"kb1", "kb2"}          \* knowledge_base_id values of the requests
UploadKBs == {"kb1"}           \* the ones uploads are sent to
Names == {"a", "b"}            \* file names of the requests
Lens == {1, 2}                 \* len(file_content)
Items == Names \X Lens         \* one uploaded file: <<filename, byte length>>
\* the files of one batch upload: one file, or two of different names
Batches == {<<x>> : x \in Items} \cup
           {q \in Items \X Items : q[1][1] # q[2][1]}
Reqs == {"r1", "r2"}           \* upload-one requests that may be in flight

\* api.py:103 os.path.exists(file_path) is false: no file of that name
Absent == -1

\* api.py:190 doc_name is None (or empty): `if doc_name:` is false
NoDoc == ""

\* api.py:224, api.py:334: the hard-coded index location
FIXED_VS == "test_case_v5"

VARIABLES
    dirs,       \* knowledge bases whose document directory exists
    files,      \* files[kb][name]: byte size of the stored file, or Absent
    vsExists,   \* index locations that exist (os.path.exists(vs_path))
    vsDocs,     \* vsDocs[kb]: file names the index of kb incorporates
    up,         \* up[r]: position and arguments of upload-one request r
    ev,         \* the last handler step that touched the store: what it was
                \* asked, what it did, what it answered
    sess,       \* sess[s]: the locals of stream_chat on connection s, and
                \* what it has sent on the channel
    hook,       \* hook[e]: the webhook delivery e: its envelope, what the
                \* handler answered, and the position of its background task
    running,    \* the background task that is inside a blocking call on
                \* the worker's event loop, or NoTask
    outbox      \* the reply posts issued to the messaging platform, in order

storeVars == <<dirs, files, vsExists, vsDocs, up, ev>>
hookVars == <<hook, running, outbox>>
vars == <<dirs, files, vsExists, vsDocs, up, ev, sess, hook, running, outbox>>

\* no task holds the event loop
NoTask == ""

\* A handler step runs on the worker's single event loop: it is taken only
\* when no blocking call holds the loop; it leaves the webhook state alone.
OnLoop == running = NoTask /\ UNCHANGED hookVars

\* ------------------------------------------------------------ path helpers
get_folder_path(local_doc_id) == local_doc_id
get_vs_path(local_doc_id) == local_doc_id

\* os.path.exists on get_file_path(kb, name)
FileExists(kb, name) == kb \in dirs /\ files[kb][name] # Absent

NoFiles == [n \in Names |-> Absent]
Present(fs) == {n \in Names : fs[n] # Absent}
Range(s) == {s[i] : i \in DOMAIN s}

Idle == [pc |-> "idle", kb |-> "", name |-> "", len |-> 0, imOp |-> "none"]

\* ev: op/kb/req/doc/lens say what was asked (lens[n]: the byte length the
\* request carried for file n, its last one if it carried several);
\* stored/skipped: names written / skipped as duplicates; hadVs: whether
\* the index existed when the step began; imOp/imFiles: the index-manager
\* call issued; loaded: what that call incorporated; code/exc/data: the
\* answer; vs: the index location a chat resolved; clean: nothing ran
\* between the write and the return of an upload-one; retry: the upload-one
\* decision directly follows the failed, undisturbed return of an upload-one
\* of the same file.
NoEv == [op |-> "none", kb |-> "", req |-> "", lens |-> NoFiles, doc |-> NoDoc,
         stored |-> {}, skipped |-> {}, hadVs |-> FALSE, imOp |-> "none",
         imFiles |-> {}, loaded |-> {}, code |-> 0, exc |-> "none",
         data |-> {}, vs |-> "", clean |-> FALSE, retry |-> FALSE]
\* --------------------------------------------------------- index manager
\* The files the engine may report as incorporated: any subset of the
\* requested files that are on disk (it silently drops what it rejects).
Loadable(kb, req) == SUBSET (req \cap Present(files[kb]))

\* init_knowledge_vector_store(files, vs_path): a full build; the index
\* then reflects exactly the files incorporated by this call.
init_knowledge_vector_store(kb, loaded) ==
    IF loaded = {}
    THEN UNCHANGED <<vsExists, vsDocs>>
    ELSE /\ vsExists' = vsExists \cup {get_vs_path(kb)}
         /\ vsDocs' = [vsDocs EXCEPT ![kb] = loaded]

\* add_files_to_knowledge_vector_store(vs_path, files): extends the index.
add_files_to_knowledge_vector_store(kb, loaded) ==
    /\ vsExists' = vsExists
    /\ vsDocs' = [vsDocs EXCEPT ![kb] = @ \cup loaded]

\* ------------------------------------------------------------------- Init
StoreInit ==
    /\ dirs = {}
    /\ files = [kb \in KBs |-> NoFiles]
    /\ vsExists \in {{}, {FIXED_VS}}
    /\ vsDocs = [kb \in KBs |-> {}]
    /\ up = [r \in Reqs |-> Idle]
    /\ ev = NoEv

\* ---------------------------------------------------- single_upload_file
\* lines 96-100: create the directory, then suspend in `await file.read()`.
UploadOneStart(r, kb, name, len) ==
    /\ up[r].pc = "idle"
    /\ dirs' = dirs \cup {get_folder_path(kb)}
    /\ up' = [up EXCEPT ![r] = [pc |-> "read", kb |-> kb, name |-> name,
                                len |-> len, imOp |-> "none"]]
    /\ UNCHANGED <<files, vsExists, vsDocs, ev, sess>> /\ OnLoop

\* line 107-108: open(file_path, "wb") truncates, then the bytes are written
WriteTruncate(old, len) == len

\* lines 102-117: duplicate check, write, choice of the index-manager call;
\* the handler then suspends in the awaited call.
UploadOneCheck(r) ==
    LET kb == up[r].kb
        name == up[r].name
        len == up[r].len
        base == [NoEv EXCEPT !.op = "uploadone", !.kb = kb, !.req = r,
                             !.lens = [NoFiles EXCEPT ![name] = len],
                             !.hadVs = (get_vs_path(kb) \in vsExists),
                             !.retry = (/\ ev.op = "uploadone_ret" /\ ev.code = 500
                                        /\ ev.clean /\ ev.kb = kb
                                        /\ ev.lens[name] = len)]
    IN  /\ up[r].pc = "read"
        /\ UNCHANGED sess /\ OnLoop
        /\ IF FileExists(kb, name) /\ files[kb][name] = len
           THEN \* lines 103-105: already there, answer 200
                /\ ev' = [base EXCEPT !.skipped = {name}, !.code = 200]
                /\ up' = [up EXCEPT ![r] = Idle]
                /\ UNCHANGED <<dirs, files, vsExists, vsDocs>>
           ELSE IF kb \notin dirs
           THEN \* line 107: the directory was removed while suspended
                /\ ev' = [base EXCEPT !.code = 500, !.exc = "FileNotFoundError"]
                /\ up' = [up EXCEPT ![r] = Idle]
                /\ UNCHANGED <<dirs, files, vsExists, vsDocs>>
           ELSE /\ files' = [files EXCEPT ![kb][name] = WriteTruncate(@, len)]
                /\ LET op == IF get_vs_path(kb) \in vsExists THEN "add" ELSE "init"
                   IN /\ ev' = [base EXCEPT !.stored = {name}, !.imOp = op,
                                            !.imFiles = {name}]
                      /\ up' = [up EXCEPT ![r].pc = "index", ![r].imOp = op]
                /\ UNCHANGED <<dirs, vsExists, vsDocs>>

\* the handler as it would be if it removed the file it had written when
\* the index manager incorporated nothing
UploadOneReturn_cleanup(r) ==
    LET kb == up[r].kb
        name == up[r].name
    IN  /\ up[r].pc = "index"
        /\ \E loaded \in Loadable(kb, {name}) :
             /\ IF up[r].imOp = "add"
                THEN add_files_to_knowledge_vector_store(kb, loaded)
                ELSE init_knowledge_vector_store(kb, loaded)
             /\ ev' = [NoEv EXCEPT !.op = "uploadone_ret", !.kb = kb, !.req = r,
                                   !.lens = [NoFiles EXCEPT ![name] = up[r].len],
                                   !.imOp = up[r].imOp, !.imFiles = {name},
                                   !.loaded = loaded,
                                   !.code = IF loaded # {} THEN 200 ELSE 500,
                                   !.clean = (ev.op = "uploadone" /\ ev.req = r)]
             /\ files' = IF loaded = {} THEN [files EXCEPT ![kb][name] = Absent]
                         ELSE files
        /\ up' = [up EXCEPT ![r] = Idle]
        /\ dirs' = dirs /\ sess' = sess /\ OnLoop

\* lines 112-123: the awaited index-manager call returns; answer 200 if it
\* incorporated the file, else 500.
UploadOneReturn(r) ==
    LET kb == up[r].kb
        name == up[r].name
    IN  /\ up[r].pc = "index"
        /\ \E loaded \in Loadable(kb, {name}) :
             /\ IF up[r].imOp = "add"
                THEN add_files_to_knowledge_vector_store(kb, loaded)
                ELSE init_knowledge_vector_store(kb, loaded)
             /\ ev' = [NoEv EXCEPT !.op = "uploadone_ret", !.kb = kb, !.req = r,
                                   !.lens = [NoFiles EXCEPT ![name] = up[r].len],
                                   !.imOp = up[r].imOp, !.imFiles = {name},
                                   !.loaded = loaded,
                                   !.code = IF loaded # {} THEN 200 ELSE 500,
                                   !.clean = (ev.op = "uploadone" /\ ev.req = r)]
        /\ up' = [up EXCEPT ![r] = Idle]
        /\ UNCHANGED <<dirs, files, sess>> /\ OnLoop


\* ------------------------------------------------------------ upload_file
\* line 142-143: open(file_path, "ab+") keeps what is there and appends
WriteAppend(old, len) == (IF old = Absent THEN 0 ELSE old) + len

\* lines 136-144: the loop over the submitted files.  fs: the sizes in the
\* directory so far; filelist: the paths written so far, in order.
RECURSIVE upload_loop(_, _, _, _)
upload_loop(fs, items, filelist, skipped) ==
    IF items = <<>>
    THEN [fs |-> fs, filelist |-> filelist, skipped |-> skipped]
    ELSE LET name == Head(items)[1]
             len == Head(items)[2]
         IN IF fs[name] # Absent /\ fs[name] = len
            THEN upload_loop(fs, Tail(items), filelist, skipped \cup {name})
            ELSE upload_loop([fs EXCEPT ![name] = WriteAppend(@, len)],
                             Tail(items), Append(filelist, name), skipped)

RECURSIVE LastLens(_)
LastLens(items) ==
    IF items = <<>> THEN NoFiles
    ELSE [LastLens(Tail(items)) EXCEPT
            ![Head(items)[1]] = IF @ = Absent THEN Head(items)[2] ELSE @]

\* lines 132-151: the whole handler runs without suspending.
upload_file(kb, items) ==
    LET r == upload_loop(files[kb], items, <<>>, {})
        written == Range(r.filelist)
        base == [NoEv EXCEPT !.op = "upload", !.kb = kb, !.lens = LastLens(items),
                             !.stored = written, !.skipped = r.skipped,
                             !.hadVs = (get_vs_path(kb) \in vsExists)]
    IN  /\ \A n \in Names : r.fs[n] <= MaxFileSize
        /\ dirs' = dirs \cup {get_folder_path(kb)}
        /\ files' = [files EXCEPT ![kb] = r.fs]
        /\ IF r.filelist # <<>>
           THEN \E loaded \in SUBSET written :
                   /\ init_knowledge_vector_store(kb, loaded)
                   /\ ev' = [base EXCEPT !.imOp = "init", !.imFiles = written,
                                         !.loaded = loaded,
                                         !.code = IF loaded # {} THEN 200 ELSE 500]
           ELSE /\ ev' = [base EXCEPT !.code = 500]
                /\ UNCHANGED <<vsExists, vsDocs>>
        /\ UNCHANGED <<up, sess>> /\ OnLoop

\* -------------------------------------------------------------- list_docs
\* lines 157-177: what the handler returns.  type tells the dict of line
\* 160 from the ListDocsResponse objects of lines 166 and 177.
list_docs(ds, fs, kb) ==
    IF kb # NoDoc
    THEN IF get_folder_path(kb) \notin ds
         THEN [type |-> "dict", code |-> 1, data |-> {}]
         ELSE [type |-> "ListDocsResponse", code |-> 200, data |-> Present(fs[kb])]
    ELSE [type |-> "ListDocsResponse", code |-> 200, data |-> ds]

ListDocs(kb) ==
    /\ ev' = [NoEv EXCEPT !.op = "list", !.kb = kb,
                          !.code = list_docs(dirs, files, kb).code,
                          !.data = list_docs(dirs, files, kb).data]
    /\ UNCHANGED <<dirs, files, vsExists, vsDocs, up, sess>> /\ OnLoop

\* ------------------------------------------------------------ delete_docs
\* obj["code"] works on a dict only; a pydantic model has no __getitem__
Subscriptable(obj) == obj.type = "dict"

\* rmtree as it would be if it emptied the directory and left it in place
rmtree_files_only(ds, fs, vs, kb) ==
    [ds |-> ds, fs |-> [fs EXCEPT ![kb] = NoFiles], vs |-> vs]

\* rmtree as it would be if it tore the index location down as well
rmtree_with_index(ds, fs, vs, kb) ==
    [ds |-> ds \ {get_folder_path(kb)}, fs |-> [fs EXCEPT ![kb] = NoFiles],
     vs |-> vs \ {get_vs_path(kb)}]

\* shutil.rmtree(get_folder_path(kb)): the document directory and all its
\* files go; nothing under the index root is touched
rmtree(ds, fs, vs, kb) ==
    [ds |-> ds \ {get_folder_path(kb)}, fs |-> [fs EXCEPT ![kb] = NoFiles], vs |-> vs]

\* lines 188-206
delete_docs(kb, doc_name) ==
    LET base == [NoEv EXCEPT !.op = "delete", !.kb = kb, !.doc = doc_name,
                             !.hadVs = (get_vs_path(kb) \in vsExists)]
    IN  /\ UNCHANGED <<up, sess>> /\ OnLoop
        /\ IF get_folder_path(kb) \notin dirs
           THEN /\ ev' = [base EXCEPT !.code = 1]
                /\ UNCHANGED <<dirs, files, vsExists, vsDocs>>
           ELSE IF doc_name # NoDoc
           THEN IF ~FileExists(kb, doc_name)
                THEN /\ ev' = [base EXCEPT !.code = 1]
                     /\ UNCHANGED <<dirs, files, vsExists, vsDocs>>
                ELSE LET fs1 == [files EXCEPT ![kb][doc_name] = Absent]
                         remain_docs == list_docs(dirs, fs1, kb)
                     IN IF ~Subscriptable(remain_docs)
                        THEN \* line 198 raises TypeError: the file is gone,
                             \* nothing else is done, the request fails
                             /\ files' = fs1
                             /\ ev' = [base EXCEPT !.code = 500, !.exc = "TypeError"]
                             /\ UNCHANGED <<dirs, vsExists, vsDocs>>
                        ELSE IF remain_docs.code # 0 \/ remain_docs.data = {}
                        THEN /\ dirs' = rmtree(dirs, fs1, vsExists, kb).ds
                             /\ files' = rmtree(dirs, fs1, vsExists, kb).fs
                             /\ vsExists' = rmtree(dirs, fs1, vsExists, kb).vs
                             /\ ev' = [base EXCEPT !.code = 200]
                             /\ UNCHANGED vsDocs
                        ELSE /\ files' = fs1
                             /\ \E loaded \in SUBSET Present(fs1[kb]) :
                                  /\ init_knowledge_vector_store(kb, loaded)
                                  /\ ev' = [base EXCEPT !.code = 200, !.imOp = "init",
                                              !.imFiles = Present(fs1[kb]),
                                              !.loaded = loaded]
                             /\ UNCHANGED dirs
           ELSE /\ dirs' = rmtree(dirs, files, vsExists, kb).ds
                /\ files' = rmtree(dirs, files, vsExists, kb).fs
                /\ vsExists' = rmtree(dirs, files, vsExists, kb).vs
                /\ ev' = [base EXCEPT !.code = 200]
                /\ UNCHANGED vsDocs

\* ------------------------------------------------------------------- chat
\* line 224: the index location the handler resolves for the request
chat_vs_path(kb) == FIXED_VS

\* lines 223-243
chat(kb) ==
    LET vs_path == chat_vs_path(kb)
        base == [NoEv EXCEPT !.op = "chat", !.kb = kb, !.vs = vs_path,
                             !.hadVs = (get_vs_path(kb) \in vsExists)]
    IN  /\ IF vs_path \notin vsExists
           THEN ev' = [base EXCEPT !.code = 500, !.exc = "ValueError"]
           ELSE ev' = [base EXCEPT !.code = 200]
        /\ UNCHANGED <<dirs, files, vsExists, vsDocs, up, sess>> /\ OnLoop

\* ------------------------------------------------------------ stream_chat
Sessions == {"s1", "s2"}       \* websocket connections
Questions == {"q1", "q2"}      \* question texts
Chars == {"x", "y"}
Texts == UNION {[1..n -> Chars] : n \in 0..MaxText}

\* text[n:] of Python: the characters past the first n, empty if there are none
SliceFrom(text, n) == SubSeq(text, n + 1, Len(text))
IsPrefix(p, t) == Len(p) <= Len(t) /\ SubSeq(t, 1, Len(p)) = p

\* a frame on the channel: its kind and the turn number it carries (0: none)
Frame(k, t) == [k |-> k, t |-> t]

\* pc: closed (no connection), accept (line 266 done), closing (error frame
\* sent, line 270), receive (waiting in line 277), start (question read),
\* stream (inside the loop of lines 281-285).
\* sent: the text frames of the current turn, concatenated in send order;
\* mono: every partial result of the turn so far extended the one before;
\* calls: calls of the QA engine made on this connection.
Closed == [pc |-> "closed", kb |-> "", turn |-> 0, history |-> <<>>,
           question |-> "", last_print_len |-> 0, resp |-> <<>>, got |-> 0,
           sent |-> <<>>, mono |-> TRUE, out |-> <<>>, calls |-> 0]

StreamInit == sess = [s \in Sessions |-> Closed]

\* line 266: the connection is accepted
StreamAccept(s, kb) ==
    /\ sess[s].pc = "closed"
    /\ sess' = [sess EXCEPT ![s] = [Closed EXCEPT !.pc = "accept", !.kb = kb]]
    /\ UNCHANGED storeVars /\ OnLoop

\* the turn counter a session starts with (line 275)
FirstTurn == 1

\* the handler as it would be without the check of line 269
StreamResolve_unchecked(s) ==
    /\ sess[s].pc = "accept"
    /\ sess' = [sess EXCEPT ![s].pc = "receive", ![s].history = <<>>,
                            ![s].turn = FirstTurn]
    /\ UNCHANGED storeVars /\ OnLoop

\* lines 267-275: resolve the index location; error frame, or the locals
StreamResolve(s) ==
    /\ sess[s].pc = "accept"
    /\ IF get_vs_path(sess[s].kb) \notin vsExists
       THEN sess' = [sess EXCEPT ![s].pc = "closing",
                                 ![s].out = Append(@, Frame("error", 0))]
       ELSE sess' = [sess EXCEPT ![s].pc = "receive", ![s].history = <<>>,
                                 ![s].turn = FirstTurn]
    /\ UNCHANGED storeVars /\ OnLoop

\* lines 271-272: close the channel and return
StreamClose(s) ==
    /\ sess[s].pc = "closing"
    /\ sess' = [sess EXCEPT ![s] = Closed]
    /\ UNCHANGED storeVars /\ OnLoop

\* the handler as it would be if it read the next question while the
\* answer of the previous one is still being streamed
StreamReceive_early(s, q) ==
    /\ sess[s].pc \in {"receive", "stream"}
    /\ sess[s].turn <= MaxTurn
    /\ sess' = [sess EXCEPT ![s].pc = "start", ![s].question = q]
    /\ UNCHANGED storeVars /\ OnLoop

\* line 277: a question arrives
StreamReceive(s, q) ==
    /\ sess[s].pc = "receive"
    /\ sess[s].turn <= MaxTurn
    /\ sess' = [sess EXCEPT ![s].pc = "start", ![s].question = q]
    /\ UNCHANGED storeVars /\ OnLoop

\* lines 278-282: the start marker is sent, the engine is called
StreamSendStart(s) ==
    /\ sess[s].pc = "start"
    /\ sess' = [sess EXCEPT ![s].pc = "stream",
                            ![s].out = Append(@, Frame("start", sess[s].turn)),
                            ![s].last_print_len = 0, ![s].resp = <<>>,
                            ![s].got = 0, ![s].sent = <<>>, ![s].mono = TRUE,
                            ![s].calls = @ + 1]
    /\ UNCHANGED storeVars /\ OnLoop

\* the frame as it would be if the whole accumulated text were sent
Delta_whole(result, last_print_len) == result

\* line 284: what is sent for the partial result `result`
Delta(result, last_print_len) == SliceFrom(result, last_print_len)

\* lines 281-285: the engine yields a partial result and the history with
\* this turn appended; the text past last_print_len is sent
StreamPartial(s, result) ==
    /\ sess[s].pc = "stream"
    /\ sess[s].got < MaxPartials
    /\ sess' = [sess EXCEPT
            ![s].resp = result,
            ![s].got = @ + 1,
            ![s].history = IF sess[s].got = 0 THEN Append(@, sess[s].question) ELSE @,
            ![s].mono = @ /\ IsPrefix(sess[s].resp, result),
            ![s].out = Append(@, Frame("text", 0)),
            ![s].sent = @ \o Delta(result, sess[s].last_print_len),
            ![s].last_print_len = Len(result)]
    /\ UNCHANGED storeVars /\ OnLoop

\* the counter as it would be if line 304 were missing
NextTurn_stuck(turn) == turn

\* line 304
NextTurn(turn) == turn + 1

\* lines 287-304: the engine's sequence is over; end marker, next turn
StreamSendEnd(s) ==
    /\ sess[s].pc = "stream"
    /\ sess[s].got >= 1
    /\ sess' = [sess EXCEPT ![s].pc = "receive",
                            ![s].out = Append(@, Frame("end", sess[s].turn)),
                            ![s].turn = NextTurn(@)]
    /\ UNCHANGED storeVars /\ OnLoop

\* the client closes the transport: the handler ends at its suspension point
StreamDisconnect(s) ==
    /\ sess[s].pc \notin {"closed", "closing"}
    /\ sess' = [sess EXCEPT ![s] = Closed]
    /\ UNCHANGED storeVars /\ OnLoop

\* ------------------------------------------------- webhook (lines 311-361)
Events == {"e1", "e2"}         \* deliveries of the messaging platform
Mids == {"m1", "m2"}           \* message ids
Tokens == {"t1", "t2"}         \* tenant access tokens the platform hands out
Challenges == {"c1"}           \* handshake challenge strings

\* a field of the envelope that was not sent (lines 312-316 default to None)
None == "None"

\* class FeiShu: the envelopes a delivery may carry.  A handshake has a
\* challenge and no event; a message event has no challenge, and its event
\* holds the message (stood for by its message_id).
Handshakes == {[challenge |-> c, type |-> "url_verification", event |-> None] :
                 c \in Challenges}
Messages == {[challenge |-> None, type |-> None, event |-> m] : m \in Mids}
Envelopes == Handshakes \cup Messages

\* pc: none (not delivered), created (handler returned, task scheduled),
\* engine / auth / post (the task is inside that blocking call), done, failed.
\* env: the envelope delivered; ack: the responses the handler has returned
\* to the delivery, in order; token: what feishu_auth returned to this
\* task; calls: the outbound calls the task has begun, in order; err: the
\* exception that ended the task.
NoEnvelope == [challenge |-> None, type |-> None, event |-> None]
NoHook == [pc |-> "none", env |-> NoEnvelope, ack |-> <<>>, token |-> None,
           calls |-> <<>>, err |-> "none"]

HookInit ==
    /\ hook = [e \in Events |-> NoHook]
    /\ running = NoTask
    /\ outbox = <<>>

\* the handler as it would answer with a bare status instead of the envelope
feishu_ack_bare(fei_shu) == [fei_shu EXCEPT !.challenge = None]

\* line 361: return fei_shu (response_model=FeiShu, line 382)
feishu_ack(fei_shu) == fei_shu

\* the handler as it would be if it awaited the coroutine instead of
\* scheduling it: the answer is held back while the engine is called
feishu_event_awaiting(e, fei_shu) ==
    /\ running = NoTask
    /\ hook[e].pc = "none"
    /\ hook' = [hook EXCEPT ![e] = [NoHook EXCEPT !.pc = "engine", !.env = fei_shu,
                                                  !.calls = <<"engine">>]]
    /\ running' = e
    /\ UNCHANGED <<storeVars, sess, outbox>>

\* lines 357-361: schedule the background task (create_task does not run
\* it), answer the delivery.  There is no suspension point in between.
feishu_event(e, fei_shu) ==
    /\ running = NoTask
    /\ hook[e].pc = "none"
    /\ hook' = [hook EXCEPT ![e] = [NoHook EXCEPT !.pc = "created", !.env = fei_shu,
                                                  !.ack = <<feishu_ack(fei_shu)>>]]
    /\ UNCHANGED <<storeVars, sess, running, outbox>>

\* the task ends with exception x: nothing of it runs afterwards
Raise(e, x) ==
    /\ hook' = [hook EXCEPT ![e].pc = "failed", ![e].err = x]
    /\ running' = NoTask
    /\ outbox' = outbox

\* lines 329-338: the task starts.  Line 332 subscripts fei_shu.event (a
\* TypeError when it is None), lines 334-336 check the fixed index location,
\* line 338 enters the engine's generator: a plain `for`, no await, so the
\* loop is held from here on.
feishu_event_async(e) ==
    /\ running = NoTask
    /\ hook[e].pc = "created"
    /\ IF hook[e].env.event = None
       THEN Raise(e, "TypeError")
       ELSE IF FIXED_VS \notin vsExists
       THEN Raise(e, "ValueError")
       ELSE /\ hook' = [hook EXCEPT ![e].pc = "engine", ![e].calls = <<"engine">>]
            /\ running' = e
            /\ outbox' = outbox
    /\ UNCHANGED <<storeVars, sess>>

\* the task as it would be if a failure of the engine were swallowed
EngineReturn_swallow(e) ==
    /\ hook[e].pc = "engine"
    /\ \/ hook' = [hook EXCEPT ![e].pc = "auth", ![e].err = "EngineError",
                               ![e].calls = Append(@, "auth")]
       \/ hook' = [hook EXCEPT ![e].pc = "auth", ![e].calls = Append(@, "auth")]
    /\ UNCHANGED <<storeVars, sess, running, outbox>>

\* lines 338-352: the engine raises, or its sequence ends and feishu_auth()
\* is called (line 322: a synchronous requests.post)
EngineReturn(e) ==
    /\ hook[e].pc = "engine"
    /\ \/ Raise(e, "EngineError")
       \/ /\ hook' = [hook EXCEPT ![e].pc = "auth", ![e].calls = Append(@, "auth")]
          /\ UNCHANGED <<running, outbox>>
    /\ UNCHANGED <<storeVars, sess>>

\* the reply as it would be if it were addressed to a fixed message
Reply_fixed(e, fei_shu, tenant_access_token) ==
    [by |-> e, mid |-> "m1", token |-> tenant_access_token]

\* lines 343-353: the reply post: url holds the event's message_id, the
\* Authorization header the token
Reply(e, fei_shu, tenant_access_token) ==
    [by |-> e, mid |-> fei_shu.event, token |-> tenant_access_token]

\* lines 320-325, 352-353: the authentication call raises (no connection, no
\* tenant_access_token in the answer), or returns a token and the reply is
\* posted (a synchronous requests.post)
AuthReturn(e) ==
    /\ hook[e].pc = "auth"
    /\ \/ Raise(e, "AuthError")
       \/ \E t \in Tokens :
            /\ hook' = [hook EXCEPT ![e].pc = "post", ![e].token = t,
                                    ![e].calls = Append(@, "post")]
            /\ outbox' = Append(outbox, Reply(e, hook[e].env, t))
            /\ running' = running
    /\ UNCHANGED <<storeVars, sess>>

\* lines 353-355: the reply post raises, or returns and the task ends
PostReturn(e) ==
    /\ hook[e].pc = "post"
    /\ \/ Raise(e, "PostError")
       \/ /\ hook' = [hook EXCEPT ![e].pc = "done"]
          /\ running' = NoTask
          /\ outbox' = outbox
    /\ UNCHANGED <<storeVars, sess>>

\* ------------------------------------------------------------------- Next
StoreNext(RS) ==
    \/ \E r \in RS, kb \in UploadKBs, n \in Names, l \in Lens : UploadOneStart(r, kb, n, l)
    \/ \E r \in RS : UploadOneCheck(r)
    \/ \E r \in RS : UploadOneReturn(r)
    \/ \E kb \in UploadKBs, items \in Batches : upload_file(kb, items)
    \/ \E kb \in KBs \cup {NoDoc} : ListDocs(kb)
    \/ \E kb \in KBs, d \in Names \cup {NoDoc} : delete_docs(kb, d)
    \/ \E kb \in KBs : chat(kb)

StreamNext(SS, QS, TS) ==
    \/ \E s \in SS, kb \in KBs : StreamAccept(s, kb)
    \/ \E s \in SS : StreamResolve(s)
    \/ \E s \in SS : StreamClose(s)
    \/ \E s \in SS, q \in QS : StreamReceive(s, q)
    \/ \E s \in SS : StreamSendStart(s)
    \/ \E s \in SS, t \in TS : StreamPartial(s, t)
    \/ \E s \in SS : StreamSendEnd(s)
    \/ \E s \in SS : StreamDisconnect(s)

Init == StoreInit /\ StreamInit /\ HookInit

\* One upload-one request at a time, interleaved with every other handler.
Next == StoreNext({"r1"})

\* The document store and the chat handler; no streaming connection is open.
Spec == Init /\ [][Next]_vars

\* The streaming sessions, over any set of index locations a run of the
\* store can leave behind; the store is not touched meanwhile.
InitStream ==
    /\ dirs = {}
    /\ files = [kb \in KBs |-> NoFiles]
    /\ vsExists \in SUBSET KBs
    /\ vsDocs = [kb \in KBs |-> IF kb \in vsExists THEN {"a"} ELSE {}]
    /\ up = [r \in Reqs |-> Idle]
    /\ ev = NoEv
    /\ StreamInit
    /\ HookInit

\* Two concurrent connections asking one question text; the engine's partial
\* results are drawn from two texts, in any order.
NextStream == StreamNext(Sessions, {"q1"}, {<<"x">>, <<"x", "y">>})
SpecStream == InitStream /\ [][NextStream]_vars

\* Batch uploads and deletes, with one streaming connection being opened,
\* rejected or closed in between (no question is asked on it).
NextTeardown ==
    \/ \E kb \in UploadKBs, items \in Batches : upload_file(kb, items)
    \/ \E kb \in KBs, d \in Names \cup {NoDoc} : delete_docs(kb, d)
    \/ \E kb \in KBs : StreamAccept("s1", kb)
    \/ StreamResolve("s1")
    \/ StreamClose("s1")
    \/ StreamDisconnect("s1")
SpecTeardown == Init /\ [][NextTeardown]_vars

\* One connection; the engine's partial results are any texts, in any order.
NextDelta == StreamNext({"s1"}, Questions, Texts)
SpecDelta == InitStream /\ [][NextDelta]_vars

\* The webhook: deliveries, their background tasks, and one streaming
\* connection being opened meanwhile.
HookNext ==
    \/ \E e \in Events, fei_shu \in Envelopes : feishu_event(e, fei_shu)
    \/ \E e \in Events : feishu_event_async(e)
    \/ \E e \in Events : EngineReturn(e)
    \/ \E e \in Events : AuthReturn(e)
    \/ \E e \in Events : PostReturn(e)
    \/ \E kb \in KBs : StreamAccept("s1", kb)
    \/ StreamResolve("s1")
    \/ StreamClose("s1")
    \/ StreamDisconnect("s1")
SpecHook == Init /\ [][HookNext]_vars

\* Two upload-one requests in flight at once, nothing else.
NextRace ==
    \/ \E r \in Reqs, kb \in UploadKBs, n \in Names, l \in Lens : UploadOneStart(r, kb, n, l)
    \/ \E r \in Reqs : UploadOneCheck(r)
    \/ \E r \in Reqs : UploadOneReturn(r)
SpecRace == Init /\ [][NextRace]_vars

\* ================================================================ claims
\* ---- steps of the store, told apart by what they leave behind
\* a step of upload_file or the duplicate check of single_upload_file
UploadDecisionStep ==
    \/ up' = up /\ sess' = sess /\ ev'.op = "upload"
    \/ \E r \in Reqs : up[r].pc = "read" /\ up'[r].pc # "read"
\* a step of delete_docs
DeleteStep == up' = up /\ sess' = sess /\ ev'.op = "delete"

\* the handler step described by e was an upload that ran to its end,
\* undisturbed, and carried file n with l bytes for knowledge base kb
UploadCompleted(e, kb, n, l) ==
    /\ e.kb = kb
    /\ e.lens[n] = l
    /\ \/ e.op = "upload"
       \/ e.op = "uploadone" /\ n \in e.skipped
       \/ e.op = "uploadone_ret" /\ e.clean

\* C1: once an upload of file n with l bytes has completed, the next upload
\* of n with l bytes to the same knowledge base (by either endpoint) is
\* skipped as a duplicate, writes nothing, and the directory still holds n
\* with its size unchanged.
C1_SecondUploadSkipped ==
    [][\A kb \in KBs, n \in Names, l \in Lens :
         (/\ UploadCompleted(ev, kb, n, l)
          /\ UploadDecisionStep
          /\ ev'.kb = kb
          /\ ev'.lens[n] = l)
         => (/\ n \in ev'.skipped
             /\ n \notin ev'.stored
             /\ files[kb][n] = l
             /\ files'[kb][n] = l)]_vars

\* C2: every upload that stores at least one new file asks the index
\* manager for a full build over the stored files if the knowledge base had
\* no index, and for an extension with the stored files only (never a full
\* build) if it had one.
C2_BuildOrExtend ==
    (ev.op \in {"upload", "uploadone"} /\ ev.stored # {})
    => /\ ev.imFiles = ev.stored
       /\ ev.imOp = (IF ev.hadVs THEN "add" ELSE "init")

\* C3: delete_docs of an existing file while another file remains removes
\* only that file, leaves the directory and the other files, asks for an
\* index rebuild over exactly the remaining files and answers success.
C3_DeleteNonLast ==
    [][\A kb \in KBs, d \in Names :
         (/\ DeleteStep /\ ev'.kb = kb /\ ev'.doc = d
          /\ FileExists(kb, d)
          /\ Present(files[kb]) \ {d} # {})
         => (/\ files' = [files EXCEPT ![kb][d] = Absent]
             /\ dirs' = dirs
             /\ ev'.imOp = "init"
             /\ ev'.imFiles = Present(files[kb]) \ {d}
             /\ ev'.code = 200
             /\ ev'.exc = "none")]_vars

\* C4: delete_docs of the only remaining file removes the file and the
\* whole document directory and answers success, so that a following list
\* for that id reports NotFound.
C4_DeleteLast ==
    [][\A kb \in KBs, d \in Names :
         (/\ DeleteStep /\ ev'.kb = kb /\ ev'.doc = d
          /\ FileExists(kb, d)
          /\ Present(files[kb]) = {d})
         => (/\ kb \notin dirs'
             /\ Present(files'[kb]) = {}
             /\ ev'.code = 200
             /\ ev'.exc = "none"
             /\ list_docs(dirs', files', kb).code = 1)]_vars

\* a delete that removed something and left the knowledge base without files
DeleteLeavesNone(kb) ==
    /\ DeleteStep /\ ev'.kb = kb
    /\ ev'.code # 1
    /\ Present(files'[kb]) = {}

\* C5 (as stated, its index half; the directory half is C4): after a
\* document delete that leaves a knowledge base with zero files, the index
\* location of the knowledge base no longer exists.
C5_IndexTornDown ==
    [][\A kb \in KBs :
         DeleteLeavesNone(kb) => get_vs_path(kb) \notin vsExists']_vars

\* C5 (amended): a delete that leaves a knowledge base with zero files
\* leaves the index exactly as it was: the index location exists afterwards
\* iff it existed before, with the same content; and a streaming session is
\* let past the check of line 269 exactly when the index location exists.
C5_IndexSurvives ==
    /\ [][\A kb \in KBs :
            DeleteLeavesNone(kb)
            => (/\ vsExists' = vsExists
                /\ vsDocs' = vsDocs
                /\ ev'.hadVs = (get_vs_path(kb) \in vsExists'))]_vars
    /\ [][\A s \in Sessions :
            (sess[s].pc = "accept" /\ sess'[s].pc \in {"receive", "closing"})
            => ((sess'[s].pc = "receive") = (get_vs_path(sess[s].kb) \in vsExists))]_vars

\* a delete has just emptied a knowledge base whose index existed; the
\* index is still there and a streaming session on that knowledge base has
\* been let in
C5_Witness ==
    /\ ev.op = "delete" /\ ev.code # 1 /\ ev.kb = "kb1"
    /\ Present(files["kb1"]) = {}
    /\ ev.hadVs
    /\ get_vs_path("kb1") \in vsExists
    /\ vsDocs["kb1"] # {}
    /\ sess["s1"].pc = "receive"
    /\ sess["s1"].kb = "kb1"

\* C10: chat resolves the requested knowledge_base_id to its own index
\* location and fails whenever that index does not exist; it never answers
\* for a knowledge base without index.
C10_ChatResolvesKb ==
    ev.op = "chat"
    => /\ ev.vs = get_vs_path(ev.kb)
       /\ (~ev.hadVs => ev.exc # "none" /\ ev.code # 200)

\* ---- streaming sessions
IsStart(f) == f.k = "start"
IsEnd(f) == f.k = "end"
StartsOf(s) == SelectSeq(sess[s].out, IsStart)
EndsOf(s) == SelectSeq(sess[s].out, IsEnd)
LastKind(o) == IF o = <<>> THEN "none" ELSE o[Len(o)].k

\* C6: while every partial result of a turn extends the previous one, the
\* text frames sent for the turn, concatenated, are exactly the accumulated
\* answer text, up to and including the end marker: each frame is the suffix
\* past what was sent before, nothing twice, nothing missing.
C6_DeltasConcat ==
    \A s \in Sessions :
        sess[s].mono
        => /\ sess[s].sent = sess[s].resp
           /\ sess[s].last_print_len = Len(sess[s].sent)

\* a turn ended after two partial results, the second longer than the first
C6_Witness ==
    /\ sess["s1"].mono
    /\ sess["s1"].got = 2
    /\ sess["s1"].resp = <<"x", "y">>
    /\ LastKind(sess["s1"].out) = "end"
    /\ sess["s1"].turn = 2

\* C7: in every session the n-th start marker and the n-th end marker carry
\* the number n; a session that has just been opened has turn 1 and an
\* empty history, whatever the other sessions have done.
C7_TurnNumbers ==
    \A s \in Sessions :
        /\ \A i \in DOMAIN StartsOf(s) : StartsOf(s)[i].t = i
        /\ \A i \in DOMAIN EndsOf(s) : EndsOf(s)[i].t = i
        /\ Len(EndsOf(s)) <= Len(StartsOf(s))
        /\ Len(StartsOf(s)) <= Len(EndsOf(s)) + 1
        /\ sess[s].pc \in {"receive", "start", "stream"}
           => sess[s].turn = Len(EndsOf(s)) + 1
        /\ (sess[s].pc = "receive" /\ sess[s].out = <<>>)
           => (sess[s].turn = 1 /\ sess[s].history = <<>>)
        /\ sess[s].pc = "receive" => Len(sess[s].history) = Len(EndsOf(s))

\* one session has completed two turns while the other, newly opened, is in
\* its first
C7_Witness ==
    /\ Len(EndsOf("s1")) = 2
    /\ sess["s1"].turn = 3
    /\ sess["s2"].pc = "stream"
    /\ sess["s2"].turn = 1
    /\ StartsOf("s2") = <<Frame("start", 1)>>

\* the session on s targets a knowledge base whose index does not exist
Unindexed(s) == sess[s].pc # "closed" /\ get_vs_path(sess[s].kb) \notin vsExists

\* C8: a session opened for a knowledge base without index sends exactly
\* one error frame, then closes, and never reads a question, sends a start
\* marker or calls the QA engine.
C8_UnknownKbRejected ==
    /\ [](\A s \in Sessions :
            Unindexed(s)
            => /\ sess[s].pc \in {"accept", "closing"}
               /\ sess[s].calls = 0
               /\ sess[s].question = ""
               /\ sess[s].out = (IF sess[s].pc = "closing"
                                 THEN <<Frame("error", 0)>> ELSE <<>>))
    /\ [][\A s \in Sessions :
            (Unindexed(s) /\ sess'[s] # sess[s])
            => \/ sess[s].pc = "accept" /\ sess'[s].pc \in {"closing", "closed"}
               \/ sess[s].pc = "closing" /\ sess'[s].pc = "closed"]_vars

\* the error frame has been sent on a connection for a knowledge base
\* without index
C8_Witness ==
    /\ Unindexed("s1")
    /\ sess["s1"].pc = "closing"
    /\ sess["s1"].out = <<Frame("error", 0)>>

\* C9: the frames of a session come turn by turn, each turn as start
\* marker, text frames, end marker; a question is read only when no turn is
\* open, that is after the end marker of the previous one.
C9_TurnsSequential ==
    \A s \in Sessions :
        LET o == sess[s].out
        IN /\ \A i \in DOMAIN o :
                LET prev == IF i = 1 THEN "none" ELSE o[i - 1].k
                IN CASE o[i].k = "start" -> prev \in {"none", "end"}
                     [] o[i].k = "text" -> prev \in {"start", "text"}
                     [] o[i].k = "end" -> prev = "text"
                     [] OTHER -> Len(o) = 1
           /\ sess[s].pc \in {"receive", "start"} => LastKind(o) \in {"none", "end"}
           /\ sess[s].pc = "stream" => LastKind(o) \in {"start", "text"}

\* a second turn is being streamed after a complete first one
C9_Witness ==
    /\ sess["s1"].pc = "stream"
    /\ sess["s1"].turn = 2
    /\ LastKind(sess["s1"].out) = "text"
    /\ Len(EndsOf("s1")) = 1

\* ---- knowledge-base delete
\* a step of list_docs
ListStep == up' = up /\ sess' = sess /\ ev'.op = "list"
\* a step of an upload handler that creates the directory of kb (lines 97-98,
\* 133-134)
MakedirsStep(kb) ==
    \/ up' = up /\ sess' = sess /\ ev'.op = "upload" /\ ev'.kb = kb
    \/ \E r \in Reqs : up[r].pc = "idle" /\ up'[r].pc = "read" /\ up'[r].kb = kb

\* C11: delete_docs without doc_name, on a knowledge base that holds
\* documents, removes the document directory with everything in it and
\* answers success; from then on every list with that id answers NotFound
\* and the list of ids does not contain it, and only an upload to that id
\* brings the directory back.
C11_KbDeleteThenNotFound ==
    [][\A kb \in KBs :
        /\ (DeleteStep /\ ev'.kb = kb /\ ev'.doc = NoDoc
                /\ get_folder_path(kb) \in dirs /\ Present(files[kb]) # {})
            => /\ ev'.code = 200 /\ ev'.exc = "none"
               /\ get_folder_path(kb) \notin dirs'
               /\ Present(files'[kb]) = {}
               /\ list_docs(dirs', files', kb).code = 1
               /\ kb \notin list_docs(dirs', files', NoDoc).data
        /\ (ListStep /\ ev'.kb = kb /\ get_folder_path(kb) \notin dirs)
            => ev'.code = 1 /\ ev'.data = {}
        /\ (ListStep /\ ev'.kb = NoDoc /\ get_folder_path(kb) \notin dirs)
            => kb \notin ev'.data
        /\ (get_folder_path(kb) \notin dirs /\ get_folder_path(kb) \in dirs')
            => MakedirsStep(kb)
      ]_vars

\* a list of kb1 answered NotFound although files of kb1 were stored and
\* indexed before: its directory was deleted in between
C11_Witness ==
    /\ ev.op = "list" /\ ev.kb = "kb1" /\ ev.code = 1
    /\ get_folder_path("kb1") \notin dirs
    /\ vsDocs["kb1"] # {}

\* ---- webhook
\* the handler of delivery e answers in this step
AckStep(e) == hook[e].pc = "none" /\ hook'[e].pc # "none"

\* C12: the webhook handler answers a delivery without waiting for its
\* background task: when the acknowledgement is returned the task has not
\* begun (no engine call, no authentication call, no reply post of that
\* delivery has been made and the event loop is free), and nothing the task
\* does afterwards changes the acknowledgement.
C12_AckNotWaiting ==
    [][\A e \in Events :
        /\ AckStep(e)
            => /\ Len(hook'[e].ack) = 1
               /\ hook'[e].pc = "created"
               /\ hook'[e].calls = <<>>
               /\ running' = NoTask
               /\ outbox' = outbox
        /\ hook[e].pc # "none" => hook'[e].ack = hook[e].ack
      ]_vars

\* the task of an acknowledged delivery is inside the engine call
C12_Witness ==
    \E e \in Events :
        /\ hook[e].pc = "engine"
        /\ hook[e].ack = <<hook[e].env>>
        /\ running = e

\* some work that does not belong to delivery e can be taken up: a new
\* connection is accepted, or another delivery is answered
UnrelatedWork(e) ==
    \/ \E kb \in KBs : StreamAccept("s1", kb)
    \/ \E d \in Events \ {e}, fei_shu \in Envelopes : feishu_event(d, fei_shu)

\* C13: while a background task is inside its call of the QA engine, the
\* worker can still take up unrelated work that is waiting: a connection
\* that is not open yet can be accepted, a delivery that has not arrived
\* yet can be answered.
C13_EngineCallYields ==
    \A e \in Events :
        (/\ hook[e].pc = "engine"
         /\ sess["s1"].pc = "closed"
         /\ \E d \in Events \ {e} : hook[d].pc = "none")
            => ENABLED UnrelatedWork(e)

\* the replies posted on behalf of delivery e, in order
RepliesOf(e) == SelectSeq(outbox, LAMBDA m : m.by = e)

\* C14: once a step of the background task has failed, the task is over:
\* it makes no further call and is not started again, nothing is posted on
\* its behalf (the failing step itself posts nothing), and the
\* acknowledgement already returned stays as it was.
C14_FailureEndsChain ==
    /\ [](\A e \in Events : hook[e].err # "none" => hook[e].pc = "failed")
    /\ [][\A e \in Events :
            /\ (hook[e].err = "none" /\ hook'[e].err # "none")
                => /\ outbox' = outbox
                   /\ hook'[e].calls = hook[e].calls
                   /\ hook'[e].ack = hook[e].ack
                   /\ Len(hook'[e].ack) = 1
            /\ hook[e].pc = "failed"
                => /\ hook'[e] = hook[e]
                   /\ RepliesOf(e)' = RepliesOf(e)
         ]_vars

\* the engine call of one delivery failed, and the task of another
\* delivery has run to its end since
C14_Witness ==
    \E e, d \in Events :
        /\ hook[e].err = "EngineError"
        /\ hook[e].calls = <<"engine">>
        /\ hook[d].pc = "done"
        /\ RepliesOf(e) = <<>>

\* C15: for a handshake delivery (a challenge, no event payload) the
\* handler's response carries the challenge it was sent, and the delivery
\* leads to no call of the QA engine, no authentication call and no reply
\* post: its background task ends before any of them.
C15_HandshakeEchoed ==
    \A e \in Events :
        (hook[e].pc # "none" /\ hook[e].env \in Handshakes)
            => /\ Len(hook[e].ack) = 1
               /\ hook[e].ack[1].challenge = hook[e].env.challenge
               /\ hook[e].ack[1].challenge \in Challenges
               /\ hook[e].calls = <<>>
               /\ RepliesOf(e) = <<>>
               /\ running # e
               /\ hook[e].pc \in {"created", "failed"}

\* a handshake was answered and its task has ended, while a message
\* delivery was replied to
C15_Witness ==
    \E e, d \in Events :
        /\ hook[e].env \in Handshakes
        /\ hook[e].pc = "failed" /\ hook[e].err = "TypeError"
        /\ hook[e].ack = <<hook[e].env>>
        /\ hook[d].pc = "done"

\* the order the task's outbound calls are made in
CallChain == <<"engine", "auth", "post">>

\* C18: a background task makes its calls in the order engine,
\* authentication, reply post, each begun only when the one before has
\* returned; a task that ran to its end has posted exactly one reply, and
\* every reply is addressed to the message id of the delivery it answers
\* and carries the token the authentication call returned to that task.
C18_ReplyAfterAnswerAndAuth ==
    \A e \in Events :
        /\ IsPrefix(hook[e].calls, CallChain)
        /\ Len(RepliesOf(e)) = (IF hook[e].calls = CallChain THEN 1 ELSE 0)
        /\ hook[e].calls = CallChain => hook[e].token \in Tokens
        /\ \A i \in DOMAIN RepliesOf(e) :
                /\ RepliesOf(e)[i].mid = hook[e].env.event
                /\ RepliesOf(e)[i].mid \in Mids
                /\ RepliesOf(e)[i].token = hook[e].token
        /\ hook[e].pc = "done"
            => hook[e].calls = CallChain /\ hook[e].env \in Messages

\* two message deliveries were both answered, each with its own message id
\* and its own token
C18_Witness ==
    /\ \A e \in Events : hook[e].pc = "done"
    /\ hook["e1"].env.event # hook["e2"].env.event
    /\ hook["e1"].token # hook["e2"].token
    /\ Len(outbox) = 2

\* ---- uploads: duplicates, stored bytes
\* C16: an upload request in which every submitted file is already stored
\* under the same name with the same size writes nothing and is answered
\* with the success status 200, for upload-one and for batch upload alike.
C16_DuplicateIsSuccess ==
    (/\ ev.op \in {"upload", "uploadone"}
     /\ ev.skipped # {}
     /\ ev.stored = {}
     /\ ev.exc = "none")
        => ev.code = 200

\* C17: a file an upload did not skip as a duplicate is afterwards stored
\* with exactly the uploaded bytes: its size is the uploaded length, whether
\* or not a file of that name and another size was there before; for
\* upload-one and for every file of a batch.
C17_StoredSizeIsUploaded ==
    [][UploadDecisionStep =>
        \A n \in ev'.stored : files'[ev'.kb][n] = ev'.lens[n]]_vars

\* ---- two upload-one requests at once
\* request r returns from the index manager in this step, with success
ReturnsSuccess(r) ==
    /\ up[r].pc = "index" /\ up'[r].pc = "idle"
    /\ ev'.op = "uploadone_ret" /\ ev'.req = r /\ ev'.code = 200

\* C19: two upload-one requests carry different files to one knowledge
\* base that has no index when the first of them looks for it.  When the
\* first has returned success and the second, in flight meanwhile, returns
\* success next, the index incorporates the files of both, and the second
\* has extended the index rather than built it anew.
C19_NoUploadLost ==
    [][\A r1, r2 \in Reqs :
        (/\ r1 # r2
         /\ ev.op = "uploadone_ret" /\ ev.req = r1 /\ ev.code = 200
         /\ ev.imOp = "init"
         /\ ReturnsSuccess(r2)
         /\ ev'.kb = ev.kb
         /\ ev'.imFiles # ev.imFiles)
            => /\ (ev.loaded \cup ev'.loaded) \subseteq vsDocs'[ev.kb]
               /\ ev'.imOp = "add"
      ]_vars

\* ---- upload-one whose file the index manager did not incorporate
\* C20: when upload-one has written its file and the index manager
\* incorporates nothing, the request is answered 500 and the file stays in
\* the directory as written; an identical upload-one (same name, same size)
\* that follows is answered 200 as already existing, writes nothing and
\* does not call the index manager, so the file is listed and the index is
\* as it was, still without the file if it was without it.
C20_FailedUploadStaysUnindexed ==
    [][\A r \in Reqs :
        /\ (/\ up[r].pc = "index" /\ up'[r].pc = "idle"
            /\ ev'.op = "uploadone_ret" /\ ev'.code = 500)
            => /\ files' = files /\ dirs' = dirs
               /\ vsDocs' = vsDocs /\ vsExists' = vsExists
               /\ ev'.clean => files'[up[r].kb][up[r].name] = up[r].len
        /\ (/\ up[r].pc = "read" /\ up'[r].pc # "read"
            /\ ev.op = "uploadone_ret" /\ ev.code = 500 /\ ev.clean
            /\ ev.kb = up[r].kb /\ ev.lens[up[r].name] = up[r].len)
            => /\ ev'.retry
               /\ ev'.skipped = {up[r].name} /\ ev'.stored = {}
               /\ ev'.code = 200 /\ ev'.imOp = "none"
               /\ up'[r].pc = "idle"
               /\ files' = files /\ vsDocs' = vsDocs /\ vsExists' = vsExists
               /\ up[r].name \in list_docs(dirs', files', up[r].kb).data
      ]_vars

\* the retry of a failed upload of a was answered as already existing, and
\* a is stored but in no index
C20_Witness ==
    /\ ev.op = "uploadone" /\ ev.retry
    /\ ev.skipped = {"a"} /\ ev.code = 200
    /\ files["kb1"]["a"] # Absent
    /\ "a" \notin vsDocs["kb1"]
    /\ get_vs_path("kb1") \notin vsExists
====
